---------------------------- MODULE Spec2Model ----------------------------
(***************************************************************************)
(* Stadium seat map: the polar layout and interaction engine of            *)
(* src/src/App.tsx (main canvas) and src/src/components/AdminPanel.tsx     *)
(* (admin panel and the DragDropAdmin editor).                             *)
(*                                                                         *)
(* Units.  Angles are integers in units of 7.5 degrees (pi/24), so that    *)
(* 2*pi = 48; radii and prices are the source's numbers.  A world point is *)
(* kept in polar form about the venue centre, [a |-> atan2, r |-> hypot],  *)
(* with a in (-24, 24] as Math.atan2 returns it.                           *)
(*                                                                         *)
(* React.  The main canvas registers its pointer listeners in an effect    *)
(* whose dependency array (App.tsx:392) omits adminDragPreview: the        *)
(* listeners read the adminDragPreview of the render in which the effect   *)
(* last ran.  lsnPreview is that captured value; it is refreshed by every  *)
(* action that changes a dependency of the effect.  The array omits        *)
(* selectedSeats as well: lsnSelected is the selectedSeats the listeners   *)
(* read.                                                                   *)
(*                                                                         *)
(* Seats.  Of the seats a sector is given, the model keeps the first one   *)
(* (row 0, seat 0) for the sectors of SeatSectors, at its polar position;  *)
(* the two Math.random() draws of a seat are a nondeterministic choice.    *)
(* seats holds the seats of the live collection; the seats arrays inside   *)
(* history snapshots are never read back, handleSectorsUpdate rebuilds     *)
(* them.                                                                   *)
(*                                                                         *)
(* View.  Pointer inputs are world points, i.e. positions after the        *)
(* screen-to-world transform, so viewState.offsetX/offsetY enter no        *)
(* handler but handleWheel's own arithmetic.  viewState keeps the scale,   *)
(* as an exact fraction; handleWheel takes the offsets it starts from as   *)
(* an input and reports the offsets it sets in probe.                      *)
(***************************************************************************)
EXTENDS Integers, Sequences, FiniteSets, TLC

VARIABLES
    sectors,             \* App: useState<Sector[]>
    isAdminMode,         \* App
    adminDragMode,       \* App
    adminDraggedSector,  \* App: sector id or NULL
    adminDragOffset,     \* App: pointer - sector centre (a vector)
    adminDragPreview,    \* App: adjusted pointer position or Nil
    lsnPreview,          \* adminDragPreview as captured by the registered listeners
    adminShowGrid,       \* App
    adminDragHistory,    \* App: Sector[][]
    adminHistoryIndex,   \* App
    isDragging,          \* App: pan gesture in progress
    seats,               \* App: the seats of the sectors kept by the model, in
                         \* the order of sectors.flatMap(s => s.seats)
    selectedSeats,       \* App: Seat[]
    lsnSelected,         \* selectedSeats as captured by the registered listeners
    cart,                \* App: CartItem[]
    viewState,           \* App: the scale of the view
    activeTab,           \* AdminPanel
    dragState,           \* DragDropAdmin
    history,             \* DragDropAdmin: HistoryState[]
    historyIndex,        \* DragDropAdmin
    snapSettings,        \* DragDropAdmin
    edits,               \* number of edits made in the panel; stands for Date.now()
    lastEvent,           \* observer: the last event delivered, and whether a redo
                         \* was available in the editor when it arrived
    probe                \* observer: the arguments and the result of a function
                         \* applied on its own, Nil when none is

vars == << sectors, isAdminMode, adminDragMode, adminDraggedSector, adminDragOffset,
           adminDragPreview, lsnPreview, adminShowGrid, adminDragHistory,
           adminHistoryIndex, isDragging, seats, selectedSeats, lsnSelected, cart,
           viewState, activeTab, dragState, history, historyIndex, snapSettings,
           edits, lastEvent, probe >>

\* the program's own state
progVars == << sectors, isAdminMode, adminDragMode, adminDraggedSector, adminDragOffset,
               adminDragPreview, lsnPreview, adminShowGrid, adminDragHistory,
               adminHistoryIndex, isDragging, seats, selectedSeats, lsnSelected, cart,
               viewState, activeTab, dragState, history, historyIndex, snapSettings,
               edits >>

appDragVars == << adminDraggedSector, adminDragOffset, adminDragPreview, lsnPreview,
                  lsnSelected >>
cartVars    == << selectedSeats, cart >>
appHistVars == << adminDragHistory, adminHistoryIndex >>
modeVars    == << isAdminMode, adminDragMode, adminShowGrid, activeTab >>
ddaVars     == << dragState, history, historyIndex, snapSettings >>

NULL == "null"              \* null where a string is expected
Nil == [nil |-> TRUE]       \* null where an object is expected

-----------------------------------------------------------------------------
(* Numbers of the program *)

TwoPi == 48                \* 2 * Math.PI in angle units
GridSize == 2              \* App.snapToGrid: Math.PI / 12
RadialGridSize == 1        \* DragDropAdmin snapSettings.radialGridSize: Math.PI / 24
HistoryCap == 50           \* DragDropAdmin.saveToHistory
FreeDistance == 10         \* determineDragMode: distance < 10
RadialTolerance == 30      \* determineDragMode: radiusDiff < 30
NewSectorEnd == 6          \* addNewSector: endAngle Math.PI / 4
NewInner == 150
NewOuter == 250
NewBasePrice == 100
NewPremiumPrice == 200
ResetBasePrice == 100      \* "Reset All Prices"
ResetPremiumPrice == 200
LinearGridSize == 20       \* DragDropAdmin snapSettings.linearGridSize

(* Bounds of the model *)

MaxPushes == 2             \* snapshots on adminDragHistory; the editor's history holds one more
MaxBothPushes == 1         \* snapshots on adminDragHistory under SpecBoth; the editor's
                           \* history holds two more
MaxEdits == 1              \* edits made in the admin panel's tabs
MaxCapPushes == 52         \* snapshots pushed under SpecCap
MaxCart == 2               \* seats in selectedSeats
MaxScaleDenominator == 400 \* scales are exact fractions; zooming stops at this denominator

-----------------------------------------------------------------------------
(* Points, vectors, angles *)

Pt(a, r) == [a |-> a, r |-> r]

\* Math.atan2's range (-pi, pi] for an angle given in units
CanonAngle(a) == ((a + 23) % TwoPi) - 23

\* a vector between two points, kept by its end points; equal points give
\* the zero vector {x: 0, y: 0}
ZeroVec == [from |-> Pt(0, 0), to |-> Pt(0, 0)]
Vec(from, to) == IF from = to THEN ZeroVec ELSE [from |-> from, to |-> to]

\* world - offset is computed where it is exact: a zero offset, or the pointer
\* at the point where the offset was taken
AdjustDefined(world, offset) == offset = ZeroVec \/ world = offset.to
Adjust(world, offset) == IF offset = ZeroVec THEN world ELSE offset.from

\* "if (angle < 0) angle += 2 * Math.PI" of the hit tests
NormIf(a) == IF a < 0 THEN a + TwoPi ELSE a

\* "while (angle < 0) angle += 2 * Math.PI" of the collision checks
RECURSIVE NormWhile(_)
NormWhile(a) == IF a < 0 THEN NormWhile(a + TwoPi) ELSE a

\* Math.round(n / d) for d > 0: floor(n/d + 1/2)
Round(n, d) == (2 * n + d) \div (2 * d)

Half(x) == x \div 2

\* Exact fractions n/d in lowest terms, d > 0, for the scale and the offsets
\* of the view
RECURSIVE GCD(_, _)
GCD(a, b) == IF b = 0 THEN a ELSE GCD(b, a % b)

Abs(x) == IF x < 0 THEN -x ELSE x

Rat(n, d) ==
    LET g == GCD(Abs(n), d)
    IN  IF n = 0 THEN [n |-> 0, d |-> 1] ELSE [n |-> n \div g, d |-> d \div g]

RMul(x, y) ==
    LET g1 == IF x.n = 0 THEN y.d ELSE GCD(Abs(x.n), y.d)
        g2 == IF y.n = 0 THEN x.d ELSE GCD(Abs(y.n), x.d)
    IN  Rat((x.n \div g1) * (y.n \div g2), (x.d \div g2) * (y.d \div g1))

RSub(x, y) ==
    LET g == GCD(x.d, y.d)
    IN  Rat(x.n * (y.d \div g) - y.n * (x.d \div g), (x.d \div g) * y.d)

\* x / y for y > 0
RDiv(x, y) == RMul(x, [n |-> y.d, d |-> y.n])

RLess(x, y) == x.n * y.d < y.n * x.d
RMin(x, y) == IF RLess(y, x) THEN y ELSE x
RMax(x, y) == IF RLess(x, y) THEN y ELSE x

One == Rat(1, 1)
Zero == Rat(0, 1)
MinScale == Rat(1, 2)          \* Math.max(0.5, ...)
MaxScale == Rat(20, 1)         \* Math.min(20, ...)
WheelOutFactor == Rat(19, 20)  \* handleWheel: 0.95
WheelInFactor == Rat(21, 20)   \* handleWheel: 1.05
ZoomInFactor == Rat(11, 10)    \* handleZoomIn: 1.1
ZoomOutFactor == Rat(9, 10)    \* handleZoomOut: 0.9
OverviewScale == Rat(3, 1)     \* getSectorAtPosition: viewState.scale > 3

-----------------------------------------------------------------------------
(* Sectors *)

Sector(id, name, s, e, inner, outer, color, base, premium, shape) ==
    [id |-> id, name |-> name, startAngle |-> s, endAngle |-> e,
     innerRadius |-> inner, outerRadius |-> outer, color |-> color,
     basePrice |-> base, premiumPrice |-> premium, shape |-> shape]

\* initializeStadium's sectorConfigs; id = name.toLowerCase().replace(/\s+/g, '-')
sectorConfigs ==
    << Sector("premium-north-stand", "Premium North Stand", -4, 4, 180, 280, "#e11d48", 250, 400, "rounded"),
       Sector("east-upper-tier", "East Upper Tier", 4, 8, 160, 260, "#dc2626", 180, 320, "rounded"),
       Sector("east-lower-stand", "East Lower Stand", 8, 16, 140, 240, "#ea580c", 150, 280, "sided"),
       Sector("family-stand", "Family Stand", 16, 20, 160, 260, "#ca8a04", 120, 220, "rounded"),
       Sector("south-kop", "South Kop", 20, 28, 180, 280, "#16a34a", 200, 350, "sided"),
       Sector("west-upper-tier", "West Upper Tier", 28, 32, 160, 260, "#0891b2", 180, 320, "rounded"),
       Sector("west-lower-stand", "West Lower Stand", 32, 40, 140, 240, "#7c3aed", 150, 280, "sided"),
       Sector("executive-club", "Executive Club", 40, 44, 160, 260, "#be185d", 300, 500, "rounded") >>

Idx(secs) == 1 .. Len(secs)

\* sectors.find(s => s.id === id): the index of the first match, 0 when none
FindSector(secs, id) ==
    IF \E i \in Idx(secs) : secs[i].id = id
    THEN CHOOSE i \in Idx(secs) : secs[i].id = id /\ \A j \in 1 .. (i - 1) : secs[j].id # id
    ELSE 0

\* the sector's mid point, handleAdminDragStart / DragDropAdmin.handleMouseDown
SectorCenter(s) ==
    Pt(CanonAngle(Half(s.startAngle + s.endAngle)), Half(s.innerRadius + s.outerRadius))

\* the loop body without its branch for a range that wraps past 0
PointInSectorUnwrapped(p, s) ==
    /\ p.r >= s.innerRadius
    /\ p.r <= s.outerRadius
    /\ LET normalizedAngle == NormIf(p.a)
           startAngle == NormIf(s.startAngle)
           endAngle == NormIf(s.endAngle)
       IN  normalizedAngle >= startAngle /\ normalizedAngle <= endAngle

\* the body of the loop of getAdminSectorAtPosition / getSectorAtPosition
PointInSector(p, s) ==
    /\ p.r >= s.innerRadius
    /\ p.r <= s.outerRadius
    /\ LET normalizedAngle == NormIf(p.a)
           startAngle == NormIf(s.startAngle)
           endAngle == NormIf(s.endAngle)
       IN  IF startAngle > endAngle
           THEN normalizedAngle >= startAngle \/ normalizedAngle <= endAngle
           ELSE normalizedAngle >= startAngle /\ normalizedAngle <= endAngle

\* index of the first sector containing p, 0 when none
FirstHit(secs, p) ==
    IF \E i \in Idx(secs) : PointInSector(p, secs[i])
    THEN CHOOSE i \in Idx(secs) :
            PointInSector(p, secs[i]) /\ \A j \in 1 .. (i - 1) : ~PointInSector(p, secs[j])
    ELSE 0

getAdminSectorAtPosition(p) == IF ~adminDragMode THEN 0 ELSE FirstHit(sectors, p)

\* the collision check with a half-open comparison on the candidate's end
SpanCollidesHalfOpen(secs, dragged, newStartAngle, newEndAngle) ==
    \E i \in Idx(secs) :
        /\ secs[i].id # dragged.id
        /\ ~(dragged.outerRadius < secs[i].innerRadius \/ dragged.innerRadius > secs[i].outerRadius)
        /\ ~(NormWhile(newEndAngle) <= NormWhile(secs[i].startAngle)
             \/ NormWhile(newStartAngle) > NormWhile(secs[i].endAngle))

\* the two collision checks share this body: radius overlap, then the
\* comparison of the normalised boundaries
SpanCollides(secs, dragged, newStartAngle, newEndAngle) ==
    \E i \in Idx(secs) :
        /\ secs[i].id # dragged.id
        /\ ~(dragged.outerRadius < secs[i].innerRadius \/ dragged.innerRadius > secs[i].outerRadius)
        /\ ~(NormWhile(newEndAngle) < NormWhile(secs[i].startAngle)
             \/ NormWhile(newStartAngle) > NormWhile(secs[i].endAngle))

checkAdminSectorCollision(draggedSector, newAngle) ==
    LET sectorSpan == draggedSector.endAngle - draggedSector.startAngle
    IN  SpanCollides(sectors, draggedSector, newAngle - Half(sectorSpan), newAngle + Half(sectorSpan))

snapToGrid(angle) == IF ~adminShowGrid THEN angle ELSE Round(angle, GridSize) * GridSize

\* sectors.map(...) replacing the angles of the sector with the given id
WithAngles(secs, id, newStartAngle, newEndAngle) ==
    [i \in Idx(secs) |->
        IF secs[i].id = id
        THEN [secs[i] EXCEPT !.startAngle = newStartAngle, !.endAngle = newEndAngle]
        ELSE secs[i]]

-----------------------------------------------------------------------------
(* Seats *)

\* The model keeps one seat of a sector, the first of its first row
\* (row = 0, seat = 0 of the generation loops), for the sectors named here.
SeatSectors == { "east-upper-tier" }

SeatRowDepth == 12         \* rows = Math.floor((outerRadius - innerRadius) / 12)
SeatRowInset == 6          \* radius = innerRadius + row * 12 + 6
MinArc == 62               \* Math.floor(radius * angleSpan / 8) >= 1 in angle units:
                           \* radius * span * pi / 24 >= 8

\* Math.random() > 0.85 and Math.random() > 0.75 for each kept seat
SeatDraws == [SeatSectors -> [isPremium : BOOLEAN, isOccupied : BOOLEAN]]

\* the generation loops run at least once
FirstSeatExists(sector) ==
    /\ sector.outerRadius - sector.innerRadius >= SeatRowDepth
    /\ (sector.innerRadius + SeatRowInset) * (sector.endAngle - sector.startAngle) >= MinArc

\* the seat pushed for row = 0, seat = 0; its position is kept in polar form
FirstSeat(sector, draw) ==
    [id |-> << sector.id, 0, 0 >>,
     a |-> sector.startAngle,
     r |-> sector.innerRadius + SeatRowInset,
     row |-> 1,
     seatNumber |-> 1,
     sector |-> sector.name,
     status |-> IF draw.isOccupied THEN "occupied"
                ELSE IF draw.isPremium THEN "premium" ELSE "available",
     price |-> IF draw.isPremium THEN sector.premiumPrice ELSE sector.basePrice]

\* the seat generation of initializeStadium and handleSectorsUpdate, for the
\* kept seats
generateSeats(secs, draws) ==
    LET kept == SelectSeq(secs, LAMBDA s : s.id \in SeatSectors /\ FirstSeatExists(s))
    IN  [i \in 1 .. Len(kept) |-> FirstSeat(kept[i], draws[kept[i].id])]

\* getSeatAtPosition: the first seat within the hit radius of the point,
\* Nil when none.  A point is within the radius of the seat it coincides
\* with; the pointer inputs are seat positions or points away from all seats.
getSeatAtPosition(p) ==
    LET hit(i) == CanonAngle(seats[i].a) = p.a /\ seats[i].r = p.r
    IN  IF \E i \in 1 .. Len(seats) : hit(i)
        THEN seats[CHOOSE i \in 1 .. Len(seats) : hit(i) /\ \A j \in 1 .. (i - 1) : ~hit(j)]
        ELSE Nil



-----------------------------------------------------------------------------
(* Initial state: the first render after initializeStadium *)

\* {x: 0, y: 0} in world coordinates, seen from the venue centre (400, 300)
WorldOrigin == Pt(-19, 500)

IdleDragState ==
    [isDragging |-> FALSE, draggedSector |-> Nil, dragOffset |-> ZeroVec,
     dragMode |-> "free", previewPosition |-> Nil, isValidPosition |-> TRUE,
     dragStartPosition |-> WorldOrigin, currentPosition |-> WorldOrigin]

DefaultSnapSettings == [enableLinearSnap |-> TRUE, enableRadialSnap |-> TRUE]

InitApp ==
    /\ sectors = sectorConfigs
    /\ isAdminMode = FALSE
    /\ adminDragMode = FALSE
    /\ adminDraggedSector = NULL
    /\ adminDragOffset = ZeroVec
    /\ adminDragPreview = Nil
    /\ lsnPreview = Nil
    /\ adminShowGrid = TRUE
    /\ adminDragHistory = << >>
    /\ adminHistoryIndex = -1
    /\ isDragging = FALSE
    /\ seats \in { generateSeats(sectorConfigs, draws) : draws \in SeatDraws }
    /\ selectedSeats = << >>
    /\ lsnSelected = << >>
    /\ cart = << >>
    /\ activeTab = "sectors"
    /\ dragState = IdleDragState
    /\ history = << >>
    /\ historyIndex = -1
    /\ snapSettings = DefaultSnapSettings
    /\ edits = 0
    /\ lastEvent = [name |-> "init", redoable |-> FALSE]

Init == InitApp /\ viewState = [scale |-> One] /\ probe = Nil

\* DragDropAdmin is rendered only in admin mode on the 'dragdrop' tab
Mounted(admin, tab) == admin /\ tab = "dragdrop"
ddaMounted == Mounted(isAdminMode, activeTab)

-----------------------------------------------------------------------------
(* App: history of main-canvas drags *)

\* saveToAdminHistory: the new history and the new index
AdminHistoryAfterSave(hist, index, newSectors) ==
    LET newHistory == Append(SubSeq(hist, 1, index + 1), newSectors)
    IN  [history |-> newHistory, index |-> Len(newHistory) - 1]

(* App: main-canvas drag controller *)

\* handleAdminDragStart
handleAdminDragStart(i, p) ==
    /\ adminDraggedSector' = sectors[i].id
    /\ adminDragOffset' = Vec(SectorCenter(sectors[i]), p)
    /\ lsnPreview' = adminDragPreview
    /\ lsnSelected' = selectedSeats
    /\ UNCHANGED << sectors, seats, adminDragPreview, adminDragHistory, adminHistoryIndex, isDragging >>

\* the last branch of handleMouseDown, without a sector hit and without a
\* selectable seat under the pointer: a pan gesture starts
StartPan ==
    /\ isDragging' = TRUE
    /\ lsnPreview' = adminDragPreview
    /\ lsnSelected' = selectedSeats
    /\ UNCHANGED << sectors, seats, adminDraggedSector, adminDragOffset, adminDragPreview,
                    adminDragHistory, adminHistoryIndex >>

\* handleSeatClick: isSelected is computed from the selectedSeats the
\* listeners captured, the updates from the current state
handleSeatClick(seat) ==
    /\ IF \E i \in 1 .. Len(lsnSelected) : lsnSelected[i].id = seat.id
       THEN /\ selectedSeats' = SelectSeq(selectedSeats, LAMBDA s : s.id # seat.id)
            /\ cart' = SelectSeq(cart, LAMBDA item : item.seat.id # seat.id)
       ELSE /\ Len(selectedSeats) < MaxCart
            /\ selectedSeats' = Append(selectedSeats, seat)
            /\ cart' = Append(cart, [seat |-> seat, quantity |-> 1])
    /\ UNCHANGED << sectors, seats, appDragVars, appHistVars, isDragging >>

\* canvas 'mousedown' with a click on any seat found under the pointer
handleMouseDownOnAnySeat(p) ==
    /\ LET i == getAdminSectorAtPosition(p)
           seat == getSeatAtPosition(p)
       IN  IF adminDragMode /\ i # 0
           THEN handleAdminDragStart(i, p) /\ UNCHANGED cartVars
           ELSE IF seat # Nil
           THEN handleSeatClick(seat)
           ELSE StartPan /\ UNCHANGED cartVars
    /\ UNCHANGED << modeVars, ddaVars, edits, viewState >>

\* canvas 'mousedown'
handleMouseDown(p) ==
    /\ LET i == getAdminSectorAtPosition(p)
           seat == getSeatAtPosition(p)
       IN  IF adminDragMode /\ i # 0
           THEN handleAdminDragStart(i, p) /\ UNCHANGED cartVars
           ELSE IF seat # Nil /\ seat.status \in { "available", "premium" }
           THEN handleSeatClick(seat)
           ELSE StartPan /\ UNCHANGED cartVars
    /\ UNCHANGED << modeVars, ddaVars, edits, viewState >>

\* removeFromCart: the remove button of a cart line
removeFromCart(seatId) ==
    /\ cart' = SelectSeq(cart, LAMBDA item : item.seat.id # seatId)
    /\ selectedSeats' = SelectSeq(selectedSeats, LAMBDA s : s.id # seatId)
    /\ UNCHANGED << sectors, seats, appDragVars, appHistVars, isDragging, modeVars,
                    ddaVars, edits, viewState >>

\* clearCart
clearCart ==
    /\ cart' = << >>
    /\ selectedSeats' = << >>
    /\ UNCHANGED << sectors, seats, appDragVars, appHistVars, isDragging, modeVars,
                    ddaVars, edits, viewState >>

\* handleAdminDragMove: only adminDragPreview (and the cursor) is set, which
\* is no dependency of the listener effect
handleAdminDragMove(p) ==
    /\ AdjustDefined(p, adminDragOffset)
    /\ adminDragPreview' = Adjust(p, adminDragOffset)
    /\ UNCHANGED << sectors, seats, adminDraggedSector, adminDragOffset, lsnPreview, lsnSelected,
                    adminDragHistory, adminHistoryIndex, isDragging >>

\* the pan branch of handleMouseMove: setViewState and setDragStart re-run the
\* listener effect
PanMove ==
    /\ lsnPreview' = adminDragPreview
    /\ lsnSelected' = selectedSeats
    /\ UNCHANGED << sectors, seats, adminDraggedSector, adminDragOffset, adminDragPreview,
                    adminDragHistory, adminHistoryIndex, isDragging >>

\* getSectorAtPosition: no sector above the overview scale, else the first
\* sector containing the point; 0 when none
getSectorAtPosition(p) ==
    IF RLess(OverviewScale, viewState.scale) THEN 0 ELSE FirstHit(sectors, p)

\* the hover branch of handleMouseMove: the cursor, hoveredSeat and
\* hoveredSector are set, which are no state of the model and no dependency
\* of the listener effect
HoverMove ==
    UNCHANGED << sectors, seats, adminDraggedSector, adminDragOffset, adminDragPreview,
                 lsnPreview, lsnSelected, adminDragHistory, adminHistoryIndex, isDragging >>

\* canvas 'mousemove'
handleMouseMove(p) ==
    /\ \/ /\ adminDragMode /\ adminDraggedSector # NULL
          /\ handleAdminDragMove(p)
       \/ /\ ~(adminDragMode /\ adminDraggedSector # NULL)
          /\ isDragging
          /\ PanMove
       \/ /\ ~(adminDragMode /\ adminDraggedSector # NULL)
          /\ ~isDragging
          /\ HoverMove
    /\ UNCHANGED << modeVars, ddaVars, edits, cartVars, viewState >>

\* the state handleAdminDragEnd leaves, as a record; preview is the
\* adminDragPreview the listener sees
AdminDragEndResult(preview) ==
    LET same == [sectors |-> sectors, dragged |-> adminDraggedSector,
                 preview |-> adminDragPreview,
                 history |-> adminDragHistory, index |-> adminHistoryIndex]
        i == FindSector(sectors, adminDraggedSector)
    IN  IF adminDraggedSector = NULL \/ preview = Nil
        THEN [same EXCEPT !.dragged = NULL, !.preview = Nil]
        ELSE IF i = 0
        THEN same
        ELSE LET draggedSector == sectors[i]
                 snappedAngle == snapToGrid(preview.a)
                 hasCollision == checkAdminSectorCollision(draggedSector, snappedAngle)
                 sectorSpan == draggedSector.endAngle - draggedSector.startAngle
                 saved == AdminHistoryAfterSave(adminDragHistory, adminHistoryIndex, sectors)
             IN  IF ~hasCollision
                 THEN [sectors |-> WithAngles(sectors, adminDraggedSector,
                                              snappedAngle - Half(sectorSpan),
                                              snappedAngle + Half(sectorSpan)),
                       dragged |-> NULL, preview |-> Nil,
                       history |-> saved.history, index |-> saved.index]
                 ELSE [same EXCEPT !.dragged = NULL, !.preview = Nil]

handleAdminDragEnd(bound) ==
    LET r == AdminDragEndResult(lsnPreview)
    IN  /\ Len(r.history) <= bound
        /\ sectors' = r.sectors
        /\ adminDraggedSector' = r.dragged
        /\ adminDragPreview' = r.preview
        /\ adminDragHistory' = r.history
        /\ adminHistoryIndex' = r.index
        /\ lsnPreview' = IF r.dragged # adminDraggedSector THEN r.preview ELSE lsnPreview
        /\ lsnSelected' = IF r.dragged # adminDraggedSector THEN selectedSeats ELSE lsnSelected
        /\ UNCHANGED << seats, adminDragOffset, isDragging >>

\* canvas 'mouseup'
handleMouseUp(bound) ==
    /\ IF adminDragMode /\ adminDraggedSector # NULL
       THEN handleAdminDragEnd(bound)
       ELSE /\ isDragging' = FALSE
            /\ lsnPreview' = IF isDragging THEN adminDragPreview ELSE lsnPreview
            /\ lsnSelected' = IF isDragging THEN selectedSeats ELSE lsnSelected
            /\ UNCHANGED << sectors, seats, adminDraggedSector, adminDragOffset, adminDragPreview,
                            adminDragHistory, adminHistoryIndex >>
    /\ UNCHANGED << modeVars, ddaVars, edits, cartVars, viewState >>

\* canvas 'mouseleave'
handleMouseLeave ==
    /\ isDragging' = FALSE
    /\ lsnPreview' = IF isDragging THEN adminDragPreview ELSE lsnPreview
    /\ lsnSelected' = IF isDragging THEN selectedSeats ELSE lsnSelected
    /\ UNCHANGED << sectors, seats, adminDraggedSector, adminDragOffset, adminDragPreview,
                    adminDragHistory, adminHistoryIndex, modeVars, ddaVars, edits, cartVars, viewState >>

\* handleKeyDown of the keyboard effect
handleKeyDown(key) ==
    /\ IF key = "Escape" /\ adminDraggedSector # NULL
       THEN /\ adminDraggedSector' = NULL
            /\ adminDragPreview' = Nil
            /\ lsnPreview' = Nil
            /\ lsnSelected' = selectedSeats
       ELSE UNCHANGED << adminDraggedSector, adminDragPreview, lsnPreview, lsnSelected >>
    /\ UNCHANGED << sectors, seats, adminDragOffset, adminDragHistory, adminHistoryIndex,
                    isDragging, modeVars, ddaVars, edits, cartVars, viewState >>

\* document 'keydown': the keyboard effect registers handleKeyDown only while
\* adminDragMode is on, and DragDropAdmin registers no keyboard listener
keydown(key) ==
    IF adminDragMode THEN handleKeyDown(key) ELSE UNCHANGED progVars

\* offsetX: mouseX - (mouseX - prev.offsetX) * scaleFactor, and offsetY alike
wheelOffset(mouse, prevOffset, scaleFactor) ==
    RSub(mouse, RMul(RSub(mouse, prevOffset), scaleFactor))

\* what handleWheel sets for an event at (mouseX, mouseY) with the given
\* deltaY, starting from the given scale and offsets
wheelView(mouseX, mouseY, deltaY, scale, offsetX, offsetY) ==
    LET scaleFactor == IF deltaY > 0 THEN WheelOutFactor ELSE WheelInFactor
        newScale == RMax(MinScale, RMin(MaxScale, RMul(scale, scaleFactor)))
    IN  [scale |-> newScale,
         offsetX |-> wheelOffset(mouseX, offsetX, scaleFactor),
         offsetY |-> wheelOffset(mouseY, offsetY, scaleFactor)]

\* canvas 'wheel'.  The model's pointer inputs are world points, so the
\* offsets of the view enter no other handler: viewState keeps the scale,
\* the offsets the event starts from are an input, and the offsets it sets
\* are reported in probe.  setViewState re-runs the listener effect.
handleWheel(mouseX, mouseY, deltaY, offsetX, offsetY) ==
    LET new == wheelView(mouseX, mouseY, deltaY, viewState.scale, offsetX, offsetY)
    IN  /\ new.scale.d <= MaxScaleDenominator
        /\ viewState' = [scale |-> new.scale]
        /\ probe' = [fn |-> "handleWheel", mouseX |-> mouseX, mouseY |-> mouseY,
                     deltaY |-> deltaY,
                     prev |-> [scale |-> viewState.scale, offsetX |-> offsetX, offsetY |-> offsetY],
                     new |-> new]
        /\ lsnPreview' = adminDragPreview
        /\ lsnSelected' = selectedSeats
        /\ UNCHANGED << sectors, seats, adminDraggedSector, adminDragOffset, adminDragPreview,
                        adminDragHistory, adminHistoryIndex, isDragging, modeVars, ddaVars,
                        edits, cartVars >>

\* the zoom buttons and the reset button: setViewState re-runs the listener
\* effect
SetScale(newScale) ==
    /\ newScale.d <= MaxScaleDenominator
    /\ viewState' = [scale |-> newScale]
    /\ lsnPreview' = adminDragPreview
    /\ lsnSelected' = selectedSeats
    /\ UNCHANGED << sectors, seats, adminDraggedSector, adminDragOffset, adminDragPreview,
                    adminDragHistory, adminHistoryIndex, isDragging, modeVars, ddaVars,
                    edits, cartVars >>

\* handleZoomIn without Math.min(20, ...)
handleZoomInUnclamped == SetScale(RMul(viewState.scale, ZoomInFactor))

handleZoomIn == SetScale(RMin(MaxScale, RMul(viewState.scale, ZoomInFactor)))

handleZoomOut == SetScale(RMax(MinScale, RMul(viewState.scale, ZoomOutFactor)))

handleResetView == SetScale(One)



-----------------------------------------------------------------------------
(* AdminPanel: modes, tabs and sector edits *)

\* DragDropAdmin's component state after a render with the given admin mode,
\* tab and sectors: lost when the component unmounts, created on mount, and
\* the history initialised by the effect of AdminPanel.tsx:712-721
DdaAfter(admin, tab, secs) ==
    LET kept == IF ddaMounted /\ Mounted(admin, tab)
                THEN [dragState |-> dragState, history |-> history,
                      historyIndex |-> historyIndex, snapSettings |-> snapSettings]
                ELSE [dragState |-> IdleDragState, history |-> << >>,
                      historyIndex |-> -1, snapSettings |-> DefaultSnapSettings]
    IN  IF Mounted(admin, tab) /\ Len(kept.history) = 0 /\ Len(secs) > 0
        THEN [kept EXCEPT !.history = << secs >>, !.historyIndex = 0]
        ELSE kept

SetDda(d) ==
    /\ dragState' = d.dragState
    /\ history' = d.history
    /\ historyIndex' = d.historyIndex
    /\ snapSettings' = d.snapSettings

\* onToggleAdminMode, and the effect of App.tsx:870-876 when admin mode ends
onToggleAdminMode ==
    /\ isAdminMode' = ~isAdminMode
    /\ IF isAdminMode
       THEN /\ adminDragMode' = FALSE
            /\ adminDraggedSector' = NULL
            /\ adminDragPreview' = Nil
            /\ lsnPreview' = IF adminDragMode \/ adminDraggedSector # NULL
                             THEN Nil ELSE lsnPreview
            /\ lsnSelected' = IF adminDragMode \/ adminDraggedSector # NULL
                              THEN selectedSeats ELSE lsnSelected
       ELSE UNCHANGED << adminDragMode, adminDraggedSector, adminDragPreview, lsnPreview, lsnSelected >>
    /\ SetDda(DdaAfter(~isAdminMode, activeTab, sectors))
    /\ UNCHANGED << sectors, seats, adminDragOffset, adminShowGrid, adminDragHistory,
                    adminHistoryIndex, isDragging, activeTab, edits, cartVars, viewState >>

\* onToggleDragMode: the buttons of the pricing tab and of DragDropAdmin
onToggleDragMode ==
    /\ isAdminMode
    /\ activeTab \in {"pricing", "dragdrop"}
    /\ adminDragMode' = ~adminDragMode
    /\ lsnPreview' = adminDragPreview
    /\ lsnSelected' = selectedSeats
    /\ UNCHANGED << sectors, seats, isAdminMode, adminDraggedSector, adminDragOffset,
                    adminDragPreview, adminShowGrid, adminDragHistory, adminHistoryIndex,
                    isDragging, activeTab, ddaVars, edits, cartVars, viewState >>

\* onShowGridChange(!showGrid): the Grid Lines button of DragDropAdmin
onShowGridChange ==
    /\ ddaMounted
    /\ adminShowGrid' = ~adminShowGrid
    /\ lsnPreview' = adminDragPreview
    /\ lsnSelected' = selectedSeats
    /\ UNCHANGED << sectors, seats, isAdminMode, adminDragMode, adminDraggedSector,
                    adminDragOffset, adminDragPreview, adminDragHistory,
                    adminHistoryIndex, isDragging, activeTab, ddaVars, edits, cartVars, viewState >>

\* setActiveTab
setActiveTab(tab) ==
    /\ isAdminMode
    /\ tab # activeTab
    /\ activeTab' = tab
    /\ SetDda(DdaAfter(isAdminMode, tab, sectors))
    /\ UNCHANGED << sectors, seats, isAdminMode, adminDragMode, adminDraggedSector,
                    adminDragOffset, adminDragPreview, lsnPreview, lsnSelected, adminShowGrid,
                    adminDragHistory, adminHistoryIndex, isDragging, edits, cartVars, viewState >>

\* App.handleSectorsUpdate: setSectors with the seats regenerated; the
\* listener effect re-runs on the new sectors array
handleSectorsUpdate(updatedSectors) ==
    /\ sectors' = updatedSectors
    /\ \E draws \in SeatDraws : seats' = generateSeats(updatedSectors, draws)
    /\ lsnPreview' = adminDragPreview
    /\ lsnSelected' = selectedSeats
    /\ UNCHANGED << adminDraggedSector, adminDragOffset, adminDragPreview,
                    adminDragHistory, adminHistoryIndex, isDragging, modeVars >>

\* sectors.map(sector => sector.id === sectorId ? {...sector, ...updates} : sector)
WithUpdates(secs, sectorId, field, value) ==
    [i \in Idx(secs) |->
        IF secs[i].id = sectorId THEN [secs[i] EXCEPT ![field] = value] ELSE secs[i]]

\* sectors.filter(sector => sector.id !== sectorId)
RECURSIVE Without(_, _)
Without(secs, sectorId) ==
    IF Len(secs) = 0 THEN << >>
    ELSE IF Head(secs).id = sectorId THEN Without(Tail(secs), sectorId)
    ELSE << Head(secs) >> \o Without(Tail(secs), sectorId)

\* the controls of the sectors tab
onSectorsTab == isAdminMode /\ activeTab = "sectors"

updateSector(sectorId, field, value) ==
    /\ onSectorsTab
    /\ edits < MaxEdits
    /\ handleSectorsUpdate(WithUpdates(sectors, sectorId, field, value))
    /\ edits' = edits + 1
    /\ UNCHANGED << ddaVars, cartVars, viewState >>

deleteSector(sectorId) ==
    /\ onSectorsTab
    /\ edits < MaxEdits
    /\ handleSectorsUpdate(Without(sectors, sectorId))
    /\ edits' = edits + 1
    /\ UNCHANGED << ddaVars, cartVars, viewState >>

\* `sector-${Date.now()}`: a fresh id at every call
NewSectorIds == << "sector-1", "sector-2", "sector-3", "sector-4", "sector-5", "sector-6" >>

predefinedColors ==
    << "#ff6b6b", "#4ecdc4", "#45b7d1", "#96ceb4", "#feca57",
       "#ff9ff3", "#54a0ff", "#5f27cd", "#00d2d3", "#ff9f43",
       "#c44569", "#f8b500", "#6c5ce7", "#a29bfe", "#fd79a8",
       "#e17055", "#00b894", "#0984e3", "#6c5ce7", "#fdcb6e" >>

addNewSector ==
    /\ onSectorsTab
    /\ edits < MaxEdits
    /\ handleSectorsUpdate(Append(sectors,
           Sector(NewSectorIds[edits + 1], "New Sector", 0, NewSectorEnd, NewInner, NewOuter,
                  predefinedColors[(Len(sectors) % Len(predefinedColors)) + 1], NewBasePrice, NewPremiumPrice, "rounded")))
    /\ edits' = edits + 1
    /\ UNCHANGED << ddaVars, cartVars, viewState >>

\* "Reset All Prices" of the pricing tab
resetAllPrices ==
    /\ isAdminMode
    /\ activeTab = "pricing"
    /\ edits < MaxEdits
    /\ handleSectorsUpdate([i \in Idx(sectors) |->
           [sectors[i] EXCEPT !.basePrice = ResetBasePrice, !.premiumPrice = ResetPremiumPrice]])
    /\ edits' = edits + 1
    /\ UNCHANGED << ddaVars, cartVars, viewState >>


-----------------------------------------------------------------------------
(* DragDropAdmin: the drag-and-drop editor *)

\* a saveToHistory that appends without truncating at the cursor
HistoryAfterSaveKeepingRedo(hist, index, newSectors) ==
    LET newHistory == Append(hist, newSectors)
    IN  IF Len(newHistory) > HistoryCap
        THEN [history |-> Tail(newHistory), index |-> index]
        ELSE [history |-> newHistory, index |-> index + 1]

\* a saveToHistory that advances the cursor on every push, eviction or not
HistoryAfterSaveAdvancing(hist, index, newSectors) ==
    LET newHistory == Append(SubSeq(hist, 1, index + 1), newSectors)
    IN  IF Len(newHistory) > HistoryCap
        THEN [history |-> Tail(newHistory), index |-> index + 1]
        ELSE [history |-> newHistory, index |-> index + 1]

\* saveToHistory: the new history and the new index
HistoryAfterSave(hist, index, newSectors) ==
    LET newHistory == Append(SubSeq(hist, 1, index + 1), newSectors)
    IN  IF Len(newHistory) > HistoryCap
        THEN [history |-> Tail(newHistory), index |-> index]
        ELSE [history |-> newHistory, index |-> index + 1]

\* snapToRadialGrid
snapToRadialGrid(angle) ==
    IF ~snapSettings.enableRadialSnap THEN angle
    ELSE Round(angle, RadialGridSize) * RadialGridSize

\* snapToLinearGrid applied to both coordinates of a point, then worldToAngle:
\* the venue centre (400, 300) lies on the 20-pixel grid, and a point on an
\* axis or a diagonal through it (angle a multiple of 45 degrees) is snapped
\* along that line, so its angle is kept; other snapped angles are not on
\* the angle grid
LinearSnapDefined(p) == ~snapSettings.enableLinearSnap \/ p.a % 6 = 0
LinearSnapAngle(p) == p.a

\* determineDragMode is computed where it is exact: the pointer has not moved,
\* has moved along a circle about the centre, or along a ray from the centre
DragModeDefined(startPos, currentPos) ==
    startPos.a = currentPos.a \/ startPos.r = currentPos.r

\* |atan2(dy, dx)| of the movement, in half units (pi = 48)
MovementAngle(startPos, currentPos) ==
    LET raw == IF startPos.r = currentPos.r
               THEN (startPos.a + currentPos.a)
                    + (IF currentPos.a > startPos.a THEN TwoPi \div 2 ELSE -(TwoPi \div 2))
               ELSE IF currentPos.r > startPos.r THEN 2 * startPos.a
                    ELSE 2 * startPos.a + TwoPi
        canon == ((raw + (TwoPi - 1)) % (2 * TwoPi)) - (TwoPi - 1)
    IN  IF canon < 0 THEN -canon ELSE canon

\* whether the movement is at least FreeDistance long: |r2 - r1| along a ray,
\* the chord 2 r sin(delta / 2) along a circle (at least 2 r sin(3.75 deg))
MovedFar(startPos, currentPos) ==
    IF startPos.r = currentPos.r
    THEN startPos.a # currentPos.a /\ 1308 * startPos.r >= FreeDistance * 10000
    ELSE (IF currentPos.r > startPos.r THEN currentPos.r - startPos.r
          ELSE startPos.r - currentPos.r) >= FreeDistance

determineDragMode(startPos, currentPos) ==
    IF ~MovedFar(startPos, currentPos) THEN "free"
    ELSE LET angle == MovementAngle(startPos, currentPos)
             isHorizontal == angle < 6 \/ angle > 42
             isVertical == angle > 18 /\ angle < 30
             radiusDiff == IF currentPos.r > startPos.r THEN currentPos.r - startPos.r
                           ELSE startPos.r - currentPos.r
         IN  IF isHorizontal \/ isVertical THEN "linear"
             ELSE IF radiusDiff < RadialTolerance THEN "radial"
             ELSE "free"

\* checkCollision
checkCollision(sector, newStartAngle, newEndAngle) ==
    SpanCollides(sectors, sector, newStartAngle, newEndAngle)

\* a calculateNewPosition that ends the span at the pointer's angle
calculateNewPositionEndingAtPointer(sector, currentPos, dragMode) ==
    LET sectorSpan == sector.endAngle - sector.startAngle
        angle == IF dragMode = "radial" THEN snapToRadialGrid(currentPos.a)
                 ELSE IF dragMode = "linear" THEN LinearSnapAngle(currentPos)
                 ELSE currentPos.a
    IN  [startAngle |-> angle - Half(sectorSpan), endAngle |-> angle]

\* calculateNewPosition
calculateNewPosition(sector, currentPos, dragMode) ==
    LET sectorSpan == sector.endAngle - sector.startAngle
        angle == IF dragMode = "radial" THEN snapToRadialGrid(currentPos.a)
                 ELSE IF dragMode = "linear" THEN LinearSnapAngle(currentPos)
                 ELSE currentPos.a
    IN  [startAngle |-> angle - Half(sectorSpan), endAngle |-> angle + Half(sectorSpan)]

\* DragDropAdmin.handleMouseDown (canvas 'mousedown', 'touchstart')
ddaMouseDown(p) ==
    /\ ddaMounted
    /\ LET i == FirstHit(sectors, p)
       IN  IF i # 0
           THEN dragState' =
                  [isDragging |-> TRUE, draggedSector |-> sectors[i],
                   dragOffset |-> Vec(SectorCenter(sectors[i]), p),
                   dragMode |-> "free", previewPosition |-> Nil,
                   isValidPosition |-> TRUE,
                   dragStartPosition |-> p, currentPosition |-> p]
           ELSE UNCHANGED dragState
    /\ UNCHANGED << sectors, seats, appDragVars, appHistVars, isDragging, modeVars,
                    history, historyIndex, snapSettings, edits, cartVars, viewState >>

\* DragDropAdmin.handleMouseMove (document 'mousemove', 'touchmove')
ddaMouseMove(p) ==
    /\ ddaMounted
    /\ dragState.isDragging /\ dragState.draggedSector # Nil
    /\ AdjustDefined(p, dragState.dragOffset)
    /\ DragModeDefined(dragState.dragStartPosition, p)
    /\ LET adjustedPos == Adjust(p, dragState.dragOffset)
           dragMode == determineDragMode(dragState.dragStartPosition, p)
           newPosition == calculateNewPosition(dragState.draggedSector, adjustedPos, dragMode)
           hasCollision == checkCollision(dragState.draggedSector,
                                          newPosition.startAngle, newPosition.endAngle)
       IN  /\ dragMode = "linear" => LinearSnapDefined(adjustedPos)
           /\ dragState' = [dragState EXCEPT !.dragMode = dragMode,
                                             !.currentPosition = p,
                                             !.previewPosition = newPosition,
                                             !.isValidPosition = ~hasCollision]
    /\ UNCHANGED << sectors, seats, appDragVars, appHistVars, isDragging, modeVars,
                    history, historyIndex, snapSettings, edits, cartVars, viewState >>

\* a handleMouseUp that saves the collection as it is before the commit
ddaMouseUpSavingBefore(bound) ==
    /\ ddaMounted
    /\ IF /\ dragState.isDragging /\ dragState.draggedSector # Nil
          /\ dragState.previewPosition # Nil /\ dragState.isValidPosition
       THEN LET updatedSectors == WithAngles(sectors, dragState.draggedSector.id,
                                             dragState.previewPosition.startAngle,
                                             dragState.previewPosition.endAngle)
                saved == HistoryAfterSave(history, historyIndex, sectors)
            IN  /\ Len(saved.history) <= bound
                /\ handleSectorsUpdate(updatedSectors)
                /\ history' = saved.history
                /\ historyIndex' = saved.index
       ELSE UNCHANGED << sectors, seats, appDragVars, appHistVars, isDragging, modeVars,
                         history, historyIndex >>
    /\ dragState' = IdleDragState
    /\ UNCHANGED << snapSettings, edits, cartVars, viewState >>

\* DragDropAdmin.handleMouseUp (document 'mouseup', 'touchend')
ddaMouseUp(bound) ==
    /\ ddaMounted
    /\ IF /\ dragState.isDragging /\ dragState.draggedSector # Nil
          /\ dragState.previewPosition # Nil /\ dragState.isValidPosition
       THEN LET updatedSectors == WithAngles(sectors, dragState.draggedSector.id,
                                             dragState.previewPosition.startAngle,
                                             dragState.previewPosition.endAngle)
                saved == HistoryAfterSave(history, historyIndex, updatedSectors)
            IN  /\ Len(saved.history) <= bound
                /\ handleSectorsUpdate(updatedSectors)
                /\ history' = saved.history
                /\ historyIndex' = saved.index
       ELSE UNCHANGED << sectors, seats, appDragVars, appHistVars, isDragging, modeVars,
                         history, historyIndex >>
    /\ dragState' = IdleDragState
    /\ UNCHANGED << snapSettings, edits, cartVars, viewState >>

\* handleUndo
handleUndo ==
    /\ ddaMounted
    /\ IF historyIndex > 0
       THEN /\ handleSectorsUpdate(history[historyIndex])
            /\ historyIndex' = historyIndex - 1
       ELSE UNCHANGED << sectors, seats, appDragVars, appHistVars, isDragging, modeVars, historyIndex >>
    /\ UNCHANGED << dragState, history, snapSettings, edits, cartVars, viewState >>

\* handleRedo without its guard on the last entry: the cursor wraps to the
\* first entry
handleRedoWrapping ==
    /\ ddaMounted
    /\ IF historyIndex < Len(history) - 1
       THEN /\ handleSectorsUpdate(history[historyIndex + 2])
            /\ historyIndex' = historyIndex + 1
       ELSE /\ historyIndex' = 0
            /\ UNCHANGED << sectors, seats, appDragVars, appHistVars, isDragging, modeVars >>
    /\ UNCHANGED << dragState, history, snapSettings, edits, cartVars, viewState >>

\* handleRedo
handleRedo ==
    /\ ddaMounted
    /\ IF historyIndex < Len(history) - 1
       THEN /\ handleSectorsUpdate(history[historyIndex + 2])
            /\ historyIndex' = historyIndex + 1
       ELSE UNCHANGED << sectors, seats, appDragVars, appHistVars, isDragging, modeVars, historyIndex >>
    /\ UNCHANGED << dragState, history, snapSettings, edits, cartVars, viewState >>

\* the snap check boxes: setSnapSettings
setSnapSettings(field) ==
    /\ ddaMounted
    /\ snapSettings' = [snapSettings EXCEPT ![field] = ~snapSettings[field]]
    /\ UNCHANGED << sectors, seats, appDragVars, appHistVars, isDragging, modeVars,
                    dragState, history, historyIndex, edits, cartVars, viewState >>


-----------------------------------------------------------------------------
(* Inputs and specifications *)

\* pointer positions on the main canvas: the centre of East Upper Tier, a
\* point of it off its centre, the centre of Premium North Stand, and a
\* point inside the inner ring, where no sector is
DownPoints == { Pt(6, 210), Pt(5, 200), Pt(0, 230), Pt(0, 100) }
MovePoints == { Pt(0, 210), Pt(12, 210), Pt(5, 200) }

\* pointer positions on the editor's canvas
DdaDownPoints == { Pt(6, 210), Pt(0, 230) }
DdaMovePoints == { Pt(0, 210), Pt(12, 210), Pt(6, 260), Pt(0, 250) }

Keys == { "Escape", "Enter" }
WheelDeltas == { -100, 100 }
Tabs == { "sectors", "dragdrop", "pricing" }
MainTabs == { "sectors", "pricing" }

\* the edits of the sectors tab that the model draws from
SectorUpdates ==
    { << "east-upper-tier", "shape", "sided" >>,
      << "east-upper-tier", "endAngle", 12 >>,
      << "east-lower-stand", "innerRadius", 100 >> }
DeletableIds == { "east-upper-tier" }
SnapFields == { "enableLinearSnap", "enableRadialSnap" }

\* the observer's record of an event
Named(name) == lastEvent' = [name |-> name, redoable |-> historyIndex < Len(history) - 1]

Note(name) == Named(name) /\ probe' = Nil

\* a pointer-down is reported with the seat found under the pointer
NoteDown(p) ==
    /\ Named("mousedown")
    /\ probe' = [fn |-> "getSeatAtPosition", seat |-> getSeatAtPosition(p)]

\* an undo is reported with the sectors, the seats and the cursor it found
NoteUndo ==
    /\ Named("handleUndo")
    /\ probe' = [fn |-> "handleUndo", acted |-> historyIndex > 0, sectors |-> sectors,
                 seats |-> seats, historyIndex |-> historyIndex]

\* a redo that acts right after an undo that acted keeps the undo's report
NoteRedo ==
    /\ Named("handleRedo")
    /\ probe' = IF /\ probe # Nil
                   /\ probe.fn = "handleUndo"
                   /\ probe.acted
                   /\ historyIndex < Len(history) - 1
                THEN [probe EXCEPT !.fn = "handleUndo;handleRedo"]
                ELSE Nil

AppPointer(downs, moves, bound) ==
    \/ \E p \in downs : handleMouseDown(p) /\ NoteDown(p)
    \/ \E p \in moves : handleMouseMove(p) /\ Note("mousemove")
    \/ handleMouseUp(bound) /\ Note("mouseup")

AppView == handleMouseLeave /\ Note("mouseleave")

\* a pointer move is reported with what the two hit tests of the hover branch
\* find under the pointer
NoteMove(p) ==
    /\ Named("mousemove")
    /\ probe' = LET i == getSectorAtPosition(p)
                IN  [fn |-> "handleMouseMove",
                     hovering |-> ~(adminDragMode /\ adminDraggedSector # NULL) /\ ~isDragging,
                     scale |-> viewState.scale,
                     seat |-> getSeatAtPosition(p),
                     sector |-> IF i = 0 THEN NULL ELSE sectors[i].id]

Hover(points) ==
    \E p \in points : handleMouseMove(p) /\ NoteMove(p)

\* the wheel, the zoom buttons and the reset button
View(points, offsets) ==
    \/ \E mouse \in points, offset \in offsets, deltaY \in WheelDeltas :
            /\ handleWheel(mouse[1], mouse[2], deltaY, offset[1], offset[2])
            /\ Named("wheel")
    \/ handleZoomIn /\ Note("handleZoomIn")
    \/ handleZoomOut /\ Note("handleZoomOut")
    \/ handleResetView /\ Note("handleResetView")

\* the cart panel
Cart ==
    \/ \E i \in 1 .. Len(cart) : removeFromCart(cart[i].seat.id) /\ Note("removeFromCart")
    \/ Len(cart) > 0 /\ clearCart /\ Note("clearCart")

Keyboard ==
    \E key \in Keys : keydown(key) /\ Note(key)

Modes ==
    \/ onToggleAdminMode /\ Note("onToggleAdminMode")
    \/ onToggleDragMode /\ Note("onToggleDragMode")

SelectTab(tabs) ==
    \E tab \in tabs : setActiveTab(tab) /\ Note("setActiveTab")

\* an edit of a sector's field is reported with the sector and the field
NoteUpdate(sectorId, field) ==
    /\ Named("updateSector")
    /\ probe' = [fn |-> "updateSector", sectorId |-> sectorId, field |-> field]

Edits ==
    \/ \E u \in SectorUpdates : updateSector(u[1], u[2], u[3]) /\ NoteUpdate(u[1], u[2])
    \/ \E id \in DeletableIds : deleteSector(id) /\ Note("deleteSector")
    \/ addNewSector /\ Note("addNewSector")
    \/ resetAllPrices /\ Note("resetAllPrices")

\* a pointer-up in the editor that commits the drag is reported with the
\* drag mode of the preview and with what saveToHistory finds: whether the
\* push evicts the oldest entry
NoteSave ==
    /\ Named("dda.mouseup")
    /\ probe' = IF /\ dragState.isDragging /\ dragState.draggedSector # Nil
                   /\ dragState.previewPosition # Nil /\ dragState.isValidPosition
                THEN [fn |-> "saveToHistory", dragMode |-> dragState.dragMode,
                      evicted |-> Len(SubSeq(history, 1, historyIndex + 1)) + 1 > HistoryCap]
                ELSE Nil

Editor(downs, moves, bound) ==
    \/ \E p \in downs : ddaMouseDown(p) /\ Note("dda.mousedown")
    \/ \E p \in moves : ddaMouseMove(p) /\ Note("dda.mousemove")
    \/ ddaMouseUp(bound) /\ NoteSave
    \/ handleUndo /\ NoteUndo
    \/ handleRedo /\ NoteRedo

EditorSettings ==
    \/ \E field \in SnapFields : setSnapSettings(field) /\ Note("setSnapSettings")
    \/ onShowGridChange /\ Note("onShowGridChange")

\* the main canvas and the admin panel's sectors and pricing tabs
Next ==
    \/ AppPointer(DownPoints, MovePoints, MaxPushes)
    \/ AppView
    \/ Keyboard
    \/ Modes
    \/ SelectTab(MainTabs)
    \/ Edits

Spec == Init /\ [][Next]_vars

\* the drag-and-drop editor of the admin panel
NextEditor ==
    \/ Modes
    \/ SelectTab(Tabs)
    \/ Editor(DdaDownPoints, DdaMovePoints, MaxPushes + 1)
    \/ EditorSettings
    \/ Keyboard

SpecEditor == Init /\ [][NextEditor]_vars

\* a drag on each canvas: East Upper Tier is taken at its centre on the main
\* canvas, Family Stand in the editor, and moved along its circle to angle 0
BothDownPoints == { Pt(6, 210) }
BothDdaDownPoints == { Pt(18, 210) }
BothMovePoints == { Pt(0, 210) }

\* the main canvas and the editor side by side
NextBoth ==
    \/ AppPointer(BothDownPoints, BothMovePoints, MaxBothPushes)
    \/ Modes
    \/ SelectTab({ "sectors", "dragdrop" })
    \/ Editor(BothDdaDownPoints, BothMovePoints, MaxBothPushes + 2)

SpecBoth == Init /\ [][NextBoth]_vars

\* many commits on the main canvas: Premium North Stand is taken at its centre
CapPoints == { Pt(0, 230) }

NextCap ==
    \/ AppPointer(CapPoints, CapPoints, MaxCapPushes)
    \/ Modes
    \/ SelectTab({ "pricing" })

SpecCap == Init /\ [][NextCap]_vars

\* the collision check on its own: two sectors a and b make up the collection,
\* and each is checked on its own span against the other
ProbeStarts == { -4, -2, 0, 2, 6, 20, 40, 44 }
ProbeLengths == { 4, 8 }
ProbeBands == { << 140, 240 >>, << 160, 260 >>, << 250, 300 >> }

ProbeSector(id, start, length, band) ==
    Sector(id, id, start, start + length, band[1], band[2], "#6b7280",
           NewBasePrice, NewPremiumPrice, "rounded")

ProbeSectors(id) ==
    { ProbeSector(id, start, length, band) :
        start \in ProbeStarts, length \in ProbeLengths, band \in ProbeBands }

CollisionProbes ==
    { [fn |-> "checkCollision", a |-> a, b |-> b, applied |-> FALSE,
       ab |-> FALSE, ba |-> FALSE] : a \in ProbeSectors("a"), b \in ProbeSectors("b") }

InitCollision == InitApp /\ viewState = [scale |-> One] /\ probe \in CollisionProbes

applyCheckCollision ==
    /\ probe # Nil
    /\ probe.fn = "checkCollision"
    /\ ~probe.applied
    /\ LET secs == << probe.a, probe.b >>
       IN  probe' = [probe EXCEPT
                        !.applied = TRUE,
                        !.ab = SpanCollides(secs, probe.a, probe.a.startAngle, probe.a.endAngle),
                        !.ba = SpanCollides(secs, probe.b, probe.b.startAngle, probe.b.endAngle)]
    /\ Named("checkCollision")
    /\ UNCHANGED progVars

NextCollision == applyCheckCollision

SpecCollision == InitCollision /\ [][NextCollision]_vars

\* the seat of East Upper Tier and a point of the pitch, away from all seats
SeatPoints == { Pt(4, 166), Pt(0, 100) }

\* the main canvas with its seats, the cart panel and the sector edits
NextSeats ==
    \/ AppPointer(SeatPoints, SeatPoints, MaxPushes)
    \/ AppView
    \/ Cart
    \/ Modes
    \/ SelectTab(MainTabs)
    \/ Edits

SpecSeats == Init /\ [][NextSeats]_vars

\* wheel events: pointer positions and starting offsets in canvas pixels
ViewPoints == { << Rat(500, 1), Rat(300, 1) >>, << Rat(0, 1), Rat(0, 1) >> }
ViewOffsets == { << Zero, Zero >>, << Rat(70, 1), Rat(-35, 1) >> }

\* the scales the view starts from: 1 after construction, 20 after 32 presses
\* of the zoom-in button (1.1^32 > 20) and 0.5 after 7 presses of the
\* zoom-out button (0.9^7 < 0.5); the buttons change nothing else
StartScales == { MinScale, One, MaxScale }

InitView == InitApp /\ viewState \in { [scale |-> x] : x \in StartScales } /\ probe = Nil

NextView == View(ViewPoints, ViewOffsets)

SpecView == InitView /\ [][NextView]_vars

\* the pointer moving over the canvas at the scales the wheel and the zoom
\* buttons set
NextHover ==
    \/ Hover(SeatPoints)
    \/ View(ViewPoints, ViewOffsets)

SpecHover == InitView /\ [][NextHover]_vars

\* many commits in the editor: Premium North Stand is taken at its centre and
\* dropped where it is
NextEditorCap ==
    \/ \E p \in CapPoints : ddaMouseDown(p) /\ Note("dda.mousedown")
    \/ \E p \in CapPoints : ddaMouseMove(p) /\ Note("dda.mousemove")
    \/ ddaMouseUp(MaxCapPushes) /\ NoteSave
    \/ handleUndo /\ Note("handleUndo")
    \/ handleRedo /\ Note("handleRedo")
    \/ onToggleAdminMode /\ Note("onToggleAdminMode")
    \/ SelectTab({ "dragdrop" })

SpecEditorCap == Init /\ [][NextEditorCap]_vars

\* drags in every drag mode: the editor's pointer also rests where it was
\* pressed on Premium North Stand, and the main canvas drags East Upper Tier
ModeMovePoints == DdaMovePoints \cup { Pt(0, 230) }

NextModes ==
    \/ AppPointer(BothDownPoints, BothMovePoints, MaxBothPushes)
    \/ \E p \in DdaDownPoints : ddaMouseDown(p) /\ Note("dda.mousedown")
    \/ \E p \in ModeMovePoints : ddaMouseMove(p) /\ Note("dda.mousemove")
    \/ ddaMouseUp(MaxBothPushes + 1) /\ NoteSave
    \/ Modes
    \/ SelectTab({ "pricing", "dragdrop" })

SpecModes == Init /\ [][NextModes]_vars

\* the two angular snapping functions on their own: each is applied to an
\* angle under the settings the panel has at that moment
SnapAngles == { CanonAngle(a) : a \in 0 .. (TwoPi - 1) }

applySnap(angle) ==
    /\ probe' = [fn |-> "snap", angle |-> angle,
                 showGrid |-> adminShowGrid,
                 enableRadialSnap |-> snapSettings.enableRadialSnap,
                 snapToGrid |-> snapToGrid(angle),
                 snapToRadialGrid |-> snapToRadialGrid(angle)]
    /\ Named("snap")
    /\ UNCHANGED progVars

NextSnap ==
    \/ \E angle \in SnapAngles : applySnap(angle)
    \/ EditorSettings
    \/ onToggleAdminMode /\ Note("onToggleAdminMode")
    \/ SelectTab({ "dragdrop" })

SpecSnap == Init /\ [][NextSnap]_vars

\* the three sector hit tests on their own, applied to a point of the canvas
\* in the state the drags have left: points at 0, 352.5, 22.5 and 180 degrees
\* in the part of East Upper Tier's band that lies inside of Premium North
\* Stand's, and in the part of Premium North Stand's band that lies outside
\* of it
HitPoints == { Pt(a, r) : a \in { 0, -1, 3, 24 }, r \in { 170, 270 } }

idOf(secs, i) == IF i = 0 THEN NULL ELSE secs[i].id

applyHitTest(p) ==
    /\ probe' = [fn |-> "hitTest", p |-> p,
                 getSectorAtPosition |-> idOf(sectors, getSectorAtPosition(p)),
                 getAdminSectorAtPosition |-> idOf(sectors, getAdminSectorAtPosition(p)),
                 ddaGetSectorAtPosition |-> idOf(sectors, FirstHit(sectors, p))]
    /\ Named("hitTest")
    /\ UNCHANGED progVars

NextHit ==
    \/ \E p \in HitPoints : applyHitTest(p)
    \/ AppPointer(BothDownPoints, BothMovePoints, MaxBothPushes)
    \/ Modes
    \/ SelectTab({ "pricing", "dragdrop" })

SpecHit == Init /\ [][NextHit]_vars

-----------------------------------------------------------------------------
(* Properties *)

\* the angles a sector covers, modulo 2 pi, as the set of unit arcs [k, k+1)
AngularCells(s) == { k % TwoPi : k \in s.startAngle .. (s.endAngle - 1) }

RadialOverlap(a, b) == ~(a.outerRadius < b.innerRadius \/ a.innerRadius > b.outerRadius)

Overlap(a, b) == RadialOverlap(a, b) /\ AngularCells(a) \cap AngularCells(b) # {}

\* C1: in every state of the live sector collection no two distinct sectors
\* overlap in both radial range and angular range taken modulo 2 pi.
NoTwoSectorsOverlap ==
    \A i, j \in Idx(sectors) : i # j => ~Overlap(sectors[i], sectors[j])


\* the angles of every sector of a collection
AnglesOf(secs) == [i \in Idx(secs) |-> << secs[i].id, secs[i].startAngle, secs[i].endAngle >>]

Last(seq) == seq[Len(seq)]

\* the sector with the given id placed on the span [newStartAngle, newEndAngle]
\* overlaps another sector of the collection
CandidateOverlaps(secs, id, newStartAngle, newEndAngle) ==
    \E i, j \in Idx(secs) :
        /\ secs[i].id = id
        /\ secs[j].id # id
        /\ Overlap([secs[i] EXCEPT !.startAngle = newStartAngle, !.endAngle = newEndAngle],
                   secs[j])

\* a pointer-up that arrives at the main canvas during a sector drag
AppRelease == lastEvent'.name = "mouseup" /\ adminDragMode /\ adminDraggedSector # NULL

\* a pointer-up that arrives at the editor during a sector drag
DdaRelease ==
    lastEvent'.name = "dda.mouseup" /\ dragState.isDragging /\ dragState.draggedSector # Nil

\* the span the main canvas shows for the drag in progress
AppCandidate ==
    LET i == FindSector(sectors, adminDraggedSector)
        a == snapToGrid(adminDragPreview.a)
        h == Half(sectors[i].endAngle - sectors[i].startAngle)
    IN  [startAngle |-> a - h, endAngle |-> a + h]

AppDropInvalid ==
    \/ adminDragPreview = Nil
    \/ /\ FindSector(sectors, adminDraggedSector) # 0
       /\ CandidateOverlaps(sectors, adminDraggedSector,
                            AppCandidate.startAngle, AppCandidate.endAngle)

DdaDropInvalid ==
    \/ dragState.previewPosition = Nil
    \/ CandidateOverlaps(sectors, dragState.draggedSector.id,
                         dragState.previewPosition.startAngle,
                         dragState.previewPosition.endAngle)

NothingCommitted ==
    /\ AnglesOf(sectors') = AnglesOf(sectors)
    /\ adminDragHistory' = adminDragHistory
    /\ history' = history

\* C2: a pointer-up that ends a sector drag whose final candidate span
\* overlaps another sector, or that finds no preview, leaves every sector's
\* startAngle and endAngle as they were and pushes no history entry, on the
\* main canvas and in the editor.
InvalidDropLeavesAngles ==
    [][ /\ (AppRelease /\ AppDropInvalid) => NothingCommitted
        /\ (DdaRelease /\ DdaDropInvalid) => NothingCommitted ]_vars


\* a pointer-up on the main canvas that commits: saveToAdminHistory has pushed
AppCommit == lastEvent'.name = "mouseup" /\ adminDragHistory' # adminDragHistory

\* a pointer-up in the editor that commits
DdaCommit ==
    /\ DdaRelease
    /\ dragState.previewPosition # Nil
    /\ dragState.isValidPosition

MutationEvents ==
    { "mouseup", "dda.mouseup", "updateSector", "addNewSector", "deleteSector",
      "resetAllPrices" }

\* C4: every committed mutation of the sector collection (a drag commit of
\* either controller, updateSector, addNewSector, deleteSector, a bulk price
\* change) comes with a push onto the history that undo and redo read.
EveryMutationIsPushed ==
    [][ (lastEvent'.name \in MutationEvents /\ sectors' # sectors)
            => /\ history' # history
               /\ history' # << >>
               /\ historyIndex' = Len(history') - 1
               /\ Last(history') \in { sectors, sectors' } ]_vars

\* C5: after every pointer release the drag controller that received it is
\* Idle: no dragged sector and no preview.
ReleaseReturnsToIdle ==
    /\ lastEvent.name = "mouseup" => (adminDraggedSector = NULL /\ adminDragPreview = Nil)
    /\ lastEvent.name = "dda.mouseup" =>
           (~dragState.isDragging /\ dragState.draggedSector = Nil
            /\ dragState.previewPosition = Nil)


\* C6: Escape pressed while a sector drag is in progress discards the preview
\* and returns that controller to Idle, with the sector collection and the
\* histories unchanged, on the main canvas and in the editor.
EscapeCancelsDrag ==
    [][ (lastEvent'.name = "Escape")
            => /\ adminDraggedSector # NULL =>
                      (adminDraggedSector' = NULL /\ adminDragPreview' = Nil)
               /\ dragState.isDragging =>
                      (~dragState'.isDragging /\ dragState'.draggedSector = Nil
                       /\ dragState'.previewPosition = Nil)
               /\ sectors' = sectors
               /\ adminDragHistory' = adminDragHistory
               /\ history' = history ]_vars

\* C7: a pointer-down that arrives while a drag session is in progress leaves
\* the recorded dragged sector, pointer offset and drag start position alone.
PointerDownKeepsSession ==
    [][ /\ (lastEvent'.name = "mousedown" /\ adminDraggedSector # NULL)
               => /\ adminDraggedSector' = adminDraggedSector
                  /\ adminDragOffset' = adminDragOffset
        /\ (lastEvent'.name = "dda.mousedown" /\ dragState.isDragging)
               => /\ dragState'.draggedSector = dragState.draggedSector
                  /\ dragState'.dragOffset = dragState.dragOffset
                  /\ dragState'.dragStartPosition = dragState.dragStartPosition ]_vars

\* C8: with admin-drag mode off, no pointer-down puts a drag controller into
\* the Dragging state, on the main canvas or in the editor.
NoDragStartWithoutDragMode ==
    [][ (~adminDragMode /\ lastEvent'.name \in { "mousedown", "dda.mousedown" })
            => /\ adminDraggedSector = NULL => adminDraggedSector' = NULL
               /\ ~dragState.isDragging => ~dragState'.isDragging ]_vars

\* the entries below the top of the new history are the entries of the old one
\* up to its cursor, less the oldest when the cap evicted it
KeepsUpToCursor(old, index, new) ==
    LET kept == SubSeq(old, 1, index + 1)
        below == SubSeq(new, 1, Len(new) - 1)
    IN  \/ below = kept
        \/ kept # << >> /\ Len(new) = HistoryCap /\ below = Tail(kept)

\* C9: a push discards every entry after the cursor: right after a drag
\* commit the pushed snapshot is the last entry of the history, the cursor is
\* on it, the entries below it are those up to the old cursor, and redo has
\* nothing to do.
PushDiscardsRedoBranch ==
    [][ /\ DdaCommit
               => /\ Last(history') = sectors'
                  /\ KeepsUpToCursor(history, historyIndex, history')
                  /\ historyIndex' = Len(history') - 1
                  /\ ~(historyIndex' < Len(history') - 1)
        /\ AppCommit
               => /\ Last(adminDragHistory') = sectors
                  /\ KeepsUpToCursor(adminDragHistory, adminHistoryIndex, adminDragHistory')
                  /\ adminHistoryIndex' = Len(adminDragHistory') - 1 ]_vars

\* the editor has just pushed a snapshot while a redo was available
PushedAfterUndo ==
    /\ lastEvent.name = "dda.mouseup"
    /\ lastEvent.redoable
    /\ Len(history) >= 2
    /\ historyIndex = Len(history) - 1
    /\ adminDragHistory # << >>

\* C10: neither history ever holds more than 50 entries.
HistoriesHoldAtMostCap ==
    /\ Len(history) <= HistoryCap
    /\ Len(adminDragHistory) <= HistoryCap

\* C11: an undo with the cursor on the first history entry and a redo with the
\* cursor on the last one leave the cursor, the history and the sectors as
\* they are
UndoRedoAtEndsAreNoOps ==
    [][ /\ (lastEvent'.name = "handleUndo" /\ historyIndex <= 0)
            => UNCHANGED << historyIndex, history, sectors >>
        /\ (lastEvent'.name = "handleRedo" /\ historyIndex >= Len(history) - 1)
            => UNCHANGED << historyIndex, history, sectors >> ]_vars

\* a redo was asked for on the last entry of a history of several entries
RedoAtLastEntry ==
    /\ lastEvent.name = "handleRedo"
    /\ ~lastEvent.redoable
    /\ Len(history) >= 2

\* the collision check was applied to two sectors whose radial ranges overlap
CollisionChecked ==
    /\ probe # Nil
    /\ probe.fn = "checkCollision"
    /\ probe.applied
    /\ RadialOverlap(probe.a, probe.b)

\* the two angular ranges share a boundary modulo 2 pi and no arc
TouchOnly(a, b) ==
    /\ AngularCells(a) \cap AngularCells(b) = {}
    /\ \/ (a.endAngle - b.startAngle) % TwoPi = 0
       \/ (b.endAngle - a.startAngle) % TwoPi = 0

\* C13: two sectors with overlapping radii whose angular ranges only touch at
\* a shared boundary are reported as not colliding
TouchingSpansDoNotCollide ==
    (CollisionChecked /\ TouchOnly(probe.a, probe.b)) => ~probe.ab

\* C14: for a candidate span and another sector with overlapping radial
\* ranges the check reports a collision exactly when the angular ranges
\* intersect modulo 2 pi; a shared boundary alone is left to either verdict
CollisionIffRangesIntersect ==
    CollisionChecked =>
        /\ (AngularCells(probe.a) \cap AngularCells(probe.b) # {}) => probe.ab
        /\ probe.ab => \/ AngularCells(probe.a) \cap AngularCells(probe.b) # {}
                       \/ TouchOnly(probe.a, probe.b)

\* C16: the collision check gives the same verdict for a against b and for b
\* against a
CollisionIsSymmetric ==
    (probe # Nil /\ probe.fn = "checkCollision" /\ probe.applied) => probe.ab = probe.ba

\* a collision was reported, in both directions, between two sectors on
\* different spans and different radial bands
CollisionReported ==
    /\ CollisionChecked
    /\ probe.ab
    /\ probe.ba
    /\ probe.a.startAngle # probe.b.startAngle
    /\ probe.a.innerRadius # probe.b.innerRadius

\* C15: a sector dragged back onto its own original position is judged valid:
\* while the editor's preview is the span the dragged sector has in the live
\* collection, the position is marked valid
OwnPositionIsJudgedValid ==
    ( /\ dragState.isDragging
      /\ dragState.draggedSector # Nil
      /\ dragState.previewPosition # Nil
      /\ FindSector(sectors, dragState.draggedSector.id) # 0
      /\ sectors[FindSector(sectors, dragState.draggedSector.id)] = dragState.draggedSector
      /\ dragState.previewPosition.startAngle = dragState.draggedSector.startAngle
      /\ dragState.previewPosition.endAngle = dragState.draggedSector.endAngle )
    => dragState.isValidPosition

\* C12: whenever an undo is not a no-op, the undo followed at once by a redo
\* restores the live sector collection, seats included, and the cursor
UndoThenRedoRestores ==
    (probe # Nil /\ probe.fn = "handleUndo;handleRedo")
        => /\ sectors = probe.sectors
           /\ seats = probe.seats
           /\ historyIndex = probe.historyIndex

\* a kept seat lies within the angular and the radial span of its sector
SeatWithinSector(seat) ==
    \E i \in Idx(sectors) :
        /\ seat.id[1] = sectors[i].id
        /\ seat.a >= sectors[i].startAngle
        /\ seat.a <= sectors[i].endAngle
        /\ seat.r >= sectors[i].innerRadius
        /\ seat.r <= sectors[i].outerRadius

\* C17: after every committed change to a sector's angles or radii (drag
\* commit, admin edit, undo, redo) the sector's seats are regenerated, so
\* that every seat lies within the current span of its sector
SeatsFollowTheirSector ==
    \A k \in 1 .. Len(seats) : SeatWithinSector(seats[k])

\* C18: a pointer-down on an occupied seat adds nothing to the selection and
\* to the cart
OccupiedSeatIsNotSelectable ==
    [][ ( /\ lastEvent'.name = "mousedown"
          /\ probe'.seat # Nil
          /\ probe'.seat.status = "occupied" )
        => UNCHANGED << selectedSeats, cart >> ]_vars

\* a pointer-down arrived on an occupied seat outside a sector drag start
PressedOccupiedSeat ==
    /\ lastEvent.name = "mousedown"
    /\ probe.seat # Nil
    /\ probe.seat.status = "occupied"
    /\ adminDraggedSector = NULL

\* C19: in every reachable state the scale of the view lies in [0.5, 20]
ScaleWithinLimits ==
    /\ ~RLess(viewState.scale, MinScale)
    /\ ~RLess(MaxScale, viewState.scale)

\* a zoom-in was asked for at the upper limit, or a zoom-out at the lower one
ZoomedAtLimit ==
    \/ lastEvent.name \in { "handleZoomIn", "wheel" } /\ viewState.scale = MaxScale
    \/ lastEvent.name \in { "handleZoomOut", "wheel" } /\ viewState.scale = MinScale

\* the world coordinate (P - offset) / scale under the screen coordinate P
ScreenToWorld(mouse, offset, scale) == RDiv(RSub(mouse, offset), scale)

\* C20: for every wheel event at a pointer position P and every starting
\* scale in [0.5, 20], the world point under P before the zoom is the world
\* point under P after it, with the new scale and the new offsets
WheelKeepsPointUnderPointer ==
    (probe # Nil /\ probe.fn = "handleWheel")
        => /\ ScreenToWorld(probe.mouseX, probe.new.offsetX, probe.new.scale)
                = ScreenToWorld(probe.mouseX, probe.prev.offsetX, probe.prev.scale)
           /\ ScreenToWorld(probe.mouseY, probe.new.offsetY, probe.new.scale)
                = ScreenToWorld(probe.mouseY, probe.prev.offsetY, probe.prev.scale)

\* C21: at no zoom scale are the sector hit test and the seat hit test both
\* active: a pointer move over the canvas never finds a seat and a sector at
\* the same scale
HitTestsAreExclusive ==
    (probe # Nil /\ probe.fn = "handleMouseMove" /\ probe.hovering)
        => ~(probe.seat # Nil /\ probe.sector # NULL)

\* C22: once the editor's history is initialised, after every push, undo and
\* redo, pushes that evict the oldest entry included, the cursor lies within
\* the history, 0 <= historyIndex <= Len(history) - 1, and right after a push
\* it is on the pushed entry, the last one
CursorStaysInHistory ==
    [][ /\ Len(history') > 0
            => (0 <= historyIndex' /\ historyIndex' <= Len(history') - 1)
        /\ DdaCommit
            => /\ historyIndex' = Len(history') - 1
               /\ Last(history') = sectors' ]_vars

\* the editor has just pushed a snapshot onto a full history, evicting the
\* oldest entry
PushEvictedOldest ==
    /\ lastEvent.name = "dda.mouseup"
    /\ probe # Nil
    /\ probe.fn = "saveToHistory"
    /\ probe.evicted
    /\ Len(history) = HistoryCap

\* the verdict drawStadium shows for the drag in progress on the main
\* canvas: the outline of the dragged sector is drawn as valid when the check
\* on the angle of adminDragPreview finds no collision
AppShownValid ==
    LET i == FindSector(sectors, adminDraggedSector)
    IN  ~checkAdminSectorCollision(sectors[i], adminDragPreview.a)

\* C23: a pointer release commits the drag exactly when the validity last
\* shown for the preview was 'valid', on the main canvas and in the editor
ReleaseCommitsIffShownValid ==
    [][ /\ ( /\ AppRelease
             /\ adminDragPreview # Nil
             /\ FindSector(sectors, adminDraggedSector) # 0 )
            => (AppCommit <=> AppShownValid)
        /\ (DdaRelease /\ dragState.previewPosition # Nil)
            => ((history' # history) <=> dragState.isValidPosition) ]_vars

\* the sector with the given id has the angular width and the radii after
\* the step that it had before it
KeepsWidthAndRadii(id) ==
    LET i == FindSector(sectors, id)
        j == FindSector(sectors', id)
    IN  i # 0 =>
            /\ j # 0
            /\ sectors'[j].endAngle - sectors'[j].startAngle
                   = sectors[i].endAngle - sectors[i].startAngle
            /\ sectors'[j].innerRadius = sectors[i].innerRadius
            /\ sectors'[j].outerRadius = sectors[i].outerRadius

\* C24: a committed drag, in any drag mode of the editor and on the main
\* canvas, leaves the dragged sector its angular width endAngle - startAngle
\* and its inner and outer radius
CommitKeepsWidthAndRadii ==
    [][ /\ DdaCommit => KeepsWidthAndRadii(dragState.draggedSector.id)
        /\ AppCommit => KeepsWidthAndRadii(adminDraggedSector) ]_vars

\* the editor has just committed a drag in radial mode that moved the sector,
\* after a commit on the main canvas
RadialDragCommitted ==
    /\ lastEvent.name = "dda.mouseup"
    /\ probe # Nil
    /\ probe.fn = "saveToHistory"
    /\ probe.dragMode = "radial"
    /\ AnglesOf(sectors) # AnglesOf(sectorConfigs)
    /\ adminDragHistory # << >>

\* 15 degrees in angle units
SpecGridStep == TwoPi \div 24

\* C25: with snapping enabled the angular snapping of each drag controller
\* returns round(angle / gridStep) * gridStep with gridStep = 15 degrees, and
\* with snapping disabled it returns the angle unchanged
SnapsToFifteenDegrees ==
    (probe # Nil /\ probe.fn = "snap")
        => /\ probe.snapToGrid = IF probe.showGrid
                                 THEN Round(probe.angle, SpecGridStep) * SpecGridStep
                                 ELSE probe.angle
           /\ probe.snapToRadialGrid = IF probe.enableRadialSnap
                                       THEN Round(probe.angle, SpecGridStep) * SpecGridStep
                                       ELSE probe.angle

\* the point lies in the radial band of the sector and its angle on the arc
\* from startAngle to endAngle, taken modulo 2 pi
InWedge(p, s) ==
    /\ p.r >= s.innerRadius
    /\ p.r <= s.outerRadius
    /\ \E k \in s.startAngle .. s.endAngle : (k - p.a) % TwoPi = 0

\* the first sector of the collection whose wedge holds the point
FirstInWedge(secs, p) ==
    IF \E i \in Idx(secs) : InWedge(p, secs[i])
    THEN secs[CHOOSE i \in Idx(secs) :
            InWedge(p, secs[i]) /\ \A j \in 1 .. (i - 1) : ~InWedge(p, secs[j])].id
    ELSE NULL

\* C26: the sector hit tests find a sector whose stored range wraps past 0
\* at the angles of its arc on both sides of 0 and not at 180 degrees: each
\* hit test returns the first sector whose radial band and whose arc modulo
\* 2 pi hold the point (getAdminSectorAtPosition with drag mode on)
HitTestsFollowWrappedRange ==
    (probe # Nil /\ probe.fn = "hitTest")
        => /\ probe.getSectorAtPosition = FirstInWedge(sectors, probe.p)
           /\ probe.ddaGetSectorAtPosition = FirstInWedge(sectors, probe.p)
           /\ adminDragMode => probe.getAdminSectorAtPosition = FirstInWedge(sectors, probe.p)

\* a hit test has found East Upper Tier, dragged onto the range from -15 to
\* 15 degrees, at 352.5 degrees
WrappedSectorHit ==
    /\ probe # Nil
    /\ probe.fn = "hitTest"
    /\ probe.p.a = -1
    /\ adminDragMode
    /\ probe.getAdminSectorAtPosition = "east-upper-tier"
    /\ \E i \in Idx(sectors) :
            sectors[i].id = "east-upper-tier" /\ sectors[i].startAngle < 0 /\ sectors[i].endAngle > 0

\* the seat held in the selection or in the cart is a seat of the live
\* collection, under the same id, not occupied and at the same price
HeldSeatIsLive(held) ==
    \E k \in 1 .. Len(seats) :
        /\ seats[k].id = held.id
        /\ seats[k].status # "occupied"
        /\ seats[k].price = held.price

\* C27: after any sequence of seat selections and sector updates every seat
\* held in the selection and in the cart exists in the live sector collection
\* under the same id, not occupied, and at the price of the held copy
HeldSeatsAreLive ==
    /\ \A i \in 1 .. Len(selectedSeats) : HeldSeatIsLive(selectedSeats[i])
    /\ \A i \in 1 .. Len(cart) : HeldSeatIsLive(cart[i].seat)

\* no two entries of the sequence of seat ids are equal
NoDuplicates(ids) == \A i, j \in 1 .. Len(ids) : i # j => ids[i] # ids[j]

\* C28: after any sequence of seat clicks, removeFromCart and clearCart the
\* cart and the selection hold the same seat ids, each at most once, and
\* every cart item has quantity 1
CartMatchesSelection ==
    LET selectedIds == [i \in 1 .. Len(selectedSeats) |-> selectedSeats[i].id]
        cartIds == [i \in 1 .. Len(cart) |-> cart[i].seat.id]
    IN  /\ { selectedIds[i] : i \in 1 .. Len(selectedIds) }
               = { cartIds[i] : i \in 1 .. Len(cartIds) }
        /\ NoDuplicates(selectedIds)
        /\ NoDuplicates(cartIds)
        /\ \A i \in 1 .. Len(cart) : cart[i].quantity = 1
        /\ Len(cart) = Len(selectedSeats)

\* the geometry of every sector, and the id, position, status and price of
\* every seat
GeometryOf(secs) ==
    [i \in Idx(secs) |-> << secs[i].id, secs[i].startAngle, secs[i].endAngle,
                            secs[i].innerRadius, secs[i].outerRadius >>]

SeatFactsOf(ss) ==
    [k \in 1 .. Len(ss) |-> << ss[k].id, ss[k].a, ss[k].r, ss[k].status, ss[k].price >>]

\* C29: an admin edit that changes only a sector's name, color or shape
\* leaves the geometry of every sector and the id, position, status and
\* price of every seat as they were
CosmeticEditKeepsSeats ==
    [][ ( /\ lastEvent'.name = "updateSector"
          /\ probe'.field \in { "name", "color", "shape" } )
        => /\ GeometryOf(sectors') = GeometryOf(sectors)
           /\ SeatFactsOf(seats') = SeatFactsOf(seats) ]_vars

\* C30: whenever a drag session exists on the main canvas, admin mode and
\* admin-drag mode are both on
DragSessionNeedsDragMode ==
    adminDraggedSector # NULL => (isAdminMode /\ adminDragMode)

=============================================================================
